---- MODULE Spec2Model ----
(***************************************************************************)
(* A model of rbc-codex-proxy: the OAuth credential cache (OAuthManager),  *)
(* the forwarding handler (ProxyHandler), the metrics collector            *)
(* (MetricsCollector) and the dashboard's push channel (DashboardServer),  *)
(* as a state machine of the handlers the single JavaScript thread runs    *)
(* between two awaits.                                                     *)
(*                                                                         *)
(* Time is counted in abstract units.  The refresh interval (15 minutes)   *)
(* is RefreshInterval units and the default lifetime (3600 s) is           *)
(* DefaultExpiresIn units: the 1:4 ratio of the source is kept.            *)
(***************************************************************************)
EXTENDS Integers, Sequences, FiniteSets, TLC

\* ------------------------------------------------------------------ bounds
\* Date.now() runs over 0..MaxTime.
MaxTime == 2
\* Token fetches issued in one behaviour.
MaxFetches == 3
\* getToken() calls made by the callers of the credential cache.
NumCallers == 2
\* Generation requests received in one behaviour.
NumRequests == 1
\* Chunks an upstream stream emits before it ends or fails.
MaxChunks == 2
\* Subscribers that connect to the dashboard's push channel.
NumSubscribers == 2
\* Messages sent to one subscriber in one behaviour.
MaxReceived == 2
\* Requests recorded while the dashboard is observed.
MaxObserved == 1
\* recordRequest calls made on the collector alone.
MaxRecorded == 102
\* Requests recorded one by one while the clock is observed.
MaxStamped == 2
\* Hours the clock runs for when the histogram is observed.
MaxHours == 24

\* --------------------------------------------------------- program constants
\* this.refreshInterval = 15 * 60 * 1000 (one unit is 7.5 minutes).
RefreshInterval == 2
\* response.data.expires_in || 3600 (3600 s = 4 refresh intervals).
DefaultExpiresIn == 8
\* this.token = null; this.tokenExpiry = null; this.refreshTimer = null.
\* null is 0: a token is a positive number, and JavaScript's own tests of
\* these fields (this.token && ..., Date.now() < this.tokenExpiry,
\* if (this.refreshTimer)) treat null as 0/false.
Null == 0

\* this.maxStoredRequests = 100
maxStoredRequests == 100

\* for (let i = 23; i >= 0; i--): the histogram is built over 24 hours.
HoursShown == 24
\* One hour (60 * 60 * 1000 ms) is four refresh intervals of 15 minutes.
HourUnits == 4 * RefreshInterval

\* parseInt(process.env.MAX_TOKENS || '4096') and the parseFloat defaults of
\* temperature ('0.7'), top_p ('1.0'), frequency_penalty ('0') and
\* presence_penalty ('0'), with the environment unset; fractions in tenths.
DefaultMaxTokens == 4096
DefaultTemperature == 7
DefaultTopP == 10
DefaultFrequencyPenalty == 0
DefaultPresencePenalty == 0
\* A property the caller's body does not carry (undefined).
Undefined == -1

\* Response bodies, by who wrote them and what they are.
NoBody == [src |-> "none", type |-> ""]
UpstreamBody == [src |-> "upstream", type |-> "completion"]
UpstreamErrorBody == [src |-> "upstream", type |-> "upstream_error"]
OAuthErrorBody == [src |-> "oauth", type |-> "invalid_client"]
\* With responseType: 'stream' the data of an upstream answer is the stream
\* object, not the bytes of the body.
StreamObject == [src |-> "stream", type |-> "IncomingMessage"]
Envelope(type) == [src |-> "proxy", type |-> type]

\* The lifetimes (expires_in) the OAuth endpoint may report; 0 stands for a
\* response that reports none (undefined or 0, both falsy).
Lifetimes == {0, 1}

\* The failures of the POST to the token endpoint: an error status with a
\* body (error.response set) or no response at all (error.request only).
OAuthErrors ==
    { [response |-> TRUE, status |-> 400, data |-> OAuthErrorBody],
      [response |-> TRUE, status |-> 401, data |-> OAuthErrorBody],
      [response |-> FALSE, status |-> 0, data |-> NoBody] }

\* No error (the value of an error field before any error is caught).
NoError == [response |-> FALSE, status |-> -1, data |-> NoBody]

\* The upstream API's error answers to a generation call: an error status
\* with a body, or with none.
UpstreamErrorAnswers ==
    { [status |-> 500, data |-> UpstreamErrorBody],
      [status |-> 429, data |-> NoBody] }

\* Authorization header values: absent, not of the Bearer form, Bearer with
\* an empty credential, Bearer with a credential.  A header is the sequence
\* of its characters.
NoHeader == << >>
BearerPrefix == <<"B", "e", "a", "r", "e", "r", " ">>
BasicHeader == <<"B", "a", "s", "i", "c", " ", "k">>
BearerKey == BearerPrefix \o <<"k">>
AuthHeaders == {NoHeader, BasicHeader, BearerKey}
\* A Bearer header with another credential; with the empty credential
\* (BearerPrefix itself), the headers a request may come with.
BearerOtherKey == BearerPrefix \o <<"j">>
InboundHeaders == AuthHeaders \cup {BearerPrefix, BearerOtherKey}

\* The values a caller gives a generation parameter: none, 0, or a positive
\* number.
ParamValues == {Undefined, 0, 5}

\* The _proxy property of a JSON body: absent, null, the one an upstream
\* service put there, or the gateway's own for request r.
NoProvenance == [served_by |-> "absent", request_id |-> 0]
NullProvenance == [served_by |-> "null", request_id |-> 0]
UpstreamProvenance == [served_by |-> "upstream", request_id |-> 0]
ProxyProvenance(r) == [served_by |-> "rbc-codex-proxy", request_id |-> r]
Provenances == {NoProvenance, NullProvenance, UpstreamProvenance}

VARIABLES
    phase,         \* the process: "constructed", "starting", "running", "exited"
    token,         \* OAuthManager.token
    tokenExpiry,   \* OAuthManager.tokenExpiry
    fetched,       \* the token response that wrote token and tokenExpiry last
    refreshTimer,  \* OAuthManager.refreshTimer: Null, or the instant the interval fires next
    intervals,     \* the number of intervals set by setInterval and not cleared
    destroyed,     \* destroy() was called, and startAutoRefresh() not called by a caller since
    now,           \* Date.now()
    issued,        \* the number of POSTs made to the token endpoint
    pending,       \* the POSTs to the token endpoint that are in flight
    lastRefresh,   \* how the interval's last fetch ended: "none", "ok", "failed"
    calls,         \* the getToken() calls of the cache's callers
    reqs,          \* the generation requests and their responses to the caller
    requests,      \* MetricsCollector.requests
    responses,     \* MetricsCollector.responses, in insertion order
    modelCounts,   \* MetricsCollector.modelCounts
    successCount,  \* MetricsCollector.successCount
    errorCount,    \* MetricsCollector.errorCount
    totalDuration, \* MetricsCollector.totalDuration
    startTime,     \* MetricsCollector.startTime
    nextId,        \* the request ids generateRequestId() has handed to callers of the collector
    clients        \* DashboardServer.wss.clients: the subscribers and what was sent to each

oauthVars ==
    <<phase, token, tokenExpiry, fetched, refreshTimer, intervals, destroyed,
      now, issued, pending, lastRefresh>>
metricsVars ==
    <<requests, responses, modelCounts, successCount, errorCount, totalDuration,
      startTime>>
vars ==
    <<phase, token, tokenExpiry, fetched, refreshTimer, intervals, destroyed,
      now, issued, pending, lastRefresh, calls, reqs,
      requests, responses, modelCounts, successCount, errorCount,
      totalDuration, startTime, nextId, clients>>

Callers == 1..NumCallers
Requests == 1..NumRequests
Models == {"gpt-4"}

\* req.body: the model, the stream flag and the five generation parameters.
Bodies ==
    [model : Models, stream : BOOLEAN, max_tokens : ParamValues,
     temperature : ParamValues, top_p : ParamValues,
     frequency_penalty : ParamValues, presence_penalty : ParamValues]

\* A body that carries the model and the stream flag only.
PlainBody(stream) ==
    [model |-> "gpt-4", stream |-> stream, max_tokens |-> Undefined,
     temperature |-> Undefined, top_p |-> Undefined,
     frequency_penalty |-> Undefined, presence_penalty |-> Undefined]

\* The owner of a fetch: initialize(), the interval's callback, a caller of
\* getToken(), or a generation request.
InitOwner == [kind |-> "init", id |-> 0]
TimerOwner == [kind |-> "timer", id |-> 0]
CallOwner(c) == [kind |-> "call", id |-> c]
ReqOwner(r) == [kind |-> "req", id |-> r]

\* The dashboard's subscribers (WebSocket connections to /ws).
Subscribers == 1..NumSubscribers

\* A message sent to a subscriber: a pong, or an update with the counters
\* of getMetrics() and the token status.
NoMessage ==
    [type |-> "none", totalRequests |-> 0, successCount |-> 0,
     errorCount |-> 0, stored |-> 0, hasToken |-> FALSE]
Pong == [NoMessage EXCEPT !.type = "pong"]

\* A subscriber: its readyState ("none" before it connects, then "open",
\* then "closed" for CLOSING and CLOSED), the number of messages sent to it
\* and the last one, and the number of its messages the handler took no
\* action on (modulo 2).
NoClient ==
    [readyState |-> "none", nReceived |-> 0, last |-> NoMessage,
     ignored |-> 0]

\* A token response: the fetch it answers, the expires_in it reports and the
\* instant it arrived at.  Before any response there is none.
NoResponse == [id |-> 0, expires_in |-> 0, at |-> 0]

\* A call records the credential and the instant it was made at.
IdleCall ==
    [pc |-> "idle", fetch |-> 0, result |-> Null, err |-> NoError,
     tokenAtCall |-> Null, expiryAtCall |-> Null, nowAtCall |-> 0]

\* A generation request: its inputs (endpoint, auth, stream, reqBody), the
\* body forwarded upstream (requestBody), the _proxy property of the
\* upstream's body and of the body sent to the caller (upProxy, bodyProxy),
\* where its handler stands (pc), the response written to the caller (status,
\* headersSent, body, written, ended), the upstream call (upstreamCalled,
\* answer, upStatus, upData, up, emitted), whether it called getToken()
\* (askedToken), the error getToken() threw (tokenErr), the recordRequest
\* and recordResponse calls made for it (nRequestEvents, nResponseEvents,
\* outcome), whether the caller's connection has closed (closed) and the
\* res.write calls made after the response was ended or the connection
\* closed (lateWrites).
IdleReq ==
    [pc |-> "idle", endpoint |-> "chat", auth |-> NoHeader, stream |-> FALSE,
     askedToken |-> FALSE, tokenErr |-> NoError,
     upstreamCalled |-> FALSE, answer |-> "none", upStatus |-> 0,
     upData |-> NoBody, up |-> "none", emitted |-> 0,
     status |-> 0, headersSent |-> FALSE, body |-> NoBody,
     written |-> << >>, ended |-> FALSE,
     nRequestEvents |-> 0, nResponseEvents |-> 0, outcome |-> "none",
     closed |-> FALSE, lateWrites |-> 0,
     reqBody |-> PlainBody(FALSE), requestBody |-> PlainBody(FALSE),
     upProxy |-> NoProvenance, bodyProxy |-> NoProvenance,
     headerWrites |-> 0]

Init ==
    /\ phase = "constructed"
    /\ token = Null
    /\ tokenExpiry = Null
    /\ fetched = NoResponse
    /\ refreshTimer = Null
    /\ intervals = 0
    /\ destroyed = FALSE
    /\ now = 0
    /\ issued = 0
    /\ pending = {}
    /\ lastRefresh = "none"
    /\ calls = [c \in Callers |-> IdleCall]
    /\ reqs = [r \in Requests |-> IdleReq]
    /\ requests = << >>
    /\ responses = << >>
    /\ modelCounts = [m \in Models |-> 0]
    /\ successCount = 0
    /\ errorCount = 0
    /\ totalDuration = 0
    /\ startTime = 0
    /\ nextId = 0
    /\ clients = [s \in Subscribers |-> NoClient]

\* ------------------------------------------------------------ OAuthManager

\* hasValidToken(): this.token && Date.now() < this.tokenExpiry
hasValidToken == token # Null /\ now < tokenExpiry

\* The access_token of the response to fetch f: every response carries a
\* token of its own.
AccessToken(f) == f

\* const expiresIn = response.data.expires_in || 3600
ExpiresIn(lifetime) == IF lifetime = 0 THEN DefaultExpiresIn ELSE lifetime

\* The fetches in flight that owner issued.
PendingOf(owner) == {f \in pending : f.owner = owner}

\* fetchToken() up to its await: the POST is issued.
fetchToken(owner) ==
    /\ issued < MaxFetches
    /\ issued' = issued + 1
    /\ pending' = pending \cup {[id |-> issued + 1, owner |-> owner]}

\* A response that replaces the token and keeps the expiry of the credential
\* it replaces.
FetchSucceeds_KeepsOldExpiry(f, lifetime) ==
    /\ token' = AccessToken(f.id)
    /\ tokenExpiry' = IF token = Null THEN now + ExpiresIn(lifetime)
                                      ELSE tokenExpiry
    /\ fetched' = [id |-> f.id, expires_in |-> lifetime, at |-> now]
    /\ pending' = pending \ {f}
    /\ UNCHANGED issued

\* A response that is dropped when the cache holds the token of a fetch
\* issued later.
FetchSucceeds_KeepsNewerToken(f, lifetime) ==
    /\ IF token # Null /\ token > AccessToken(f.id)
         THEN UNCHANGED <<token, tokenExpiry, fetched>>
         ELSE /\ token' = AccessToken(f.id)
              /\ tokenExpiry' = now + ExpiresIn(lifetime)
              /\ fetched' = [id |-> f.id, expires_in |-> lifetime, at |-> now]
    /\ pending' = pending \ {f}
    /\ UNCHANGED issued

\* fetchToken() after its await, the POST answered 200: lines 57-63.
FetchSucceeds(f, lifetime) ==
    /\ token' = AccessToken(f.id)
    /\ tokenExpiry' = now + ExpiresIn(lifetime)
    /\ fetched' = [id |-> f.id, expires_in |-> lifetime, at |-> now]
    /\ pending' = pending \ {f}
    /\ UNCHANGED issued

\* A failed fetch that drops the cached credential.
FetchFails_ClearsCredential(f) ==
    /\ token' = Null
    /\ tokenExpiry' = Null
    /\ UNCHANGED fetched
    /\ pending' = pending \ {f}
    /\ UNCHANGED issued

\* fetchToken() after its await, the POST failed: the catch block logs and
\* rethrows, lines 65-86.
FetchFails(f) ==
    /\ UNCHANGED <<token, tokenExpiry, fetched>>
    /\ pending' = pending \ {f}
    /\ UNCHANGED issued

\* startAutoRefresh(): any previous interval is cleared, a new one is set.
startAutoRefresh ==
    /\ refreshTimer' = now + RefreshInterval
    /\ intervals' =
          (IF refreshTimer # Null THEN intervals - 1 ELSE intervals) + 1

\* A getToken() that fetches whether or not the cached token is valid.
getToken_AlwaysFetches(owner) == fetchToken(owner)

\* getToken(): the cached token if hasValidToken(), else fetchToken().  The
\* caller sees a new fetch (issued' # issued) when one was issued.
getToken(owner) ==
    IF hasValidToken THEN UNCHANGED <<issued, pending>> ELSE fetchToken(owner)

\* RBCCodexProxy.start() calls initialize(), which calls fetchToken().
Initialize ==
    /\ phase = "constructed"
    /\ phase' = "starting"
    /\ fetchToken(InitOwner)
    /\ UNCHANGED <<token, tokenExpiry, fetched, refreshTimer,
                   intervals, destroyed, now, lastRefresh>>
    /\ UNCHANGED <<calls, reqs, metricsVars>>
    /\ UNCHANGED <<nextId, clients>>

\* initialize() resumes: the first fetch succeeded, the refresh is scheduled
\* and start() goes on to install the routes and listen.
InitializeOk ==
    /\ phase = "starting"
    /\ \E f \in PendingOf(InitOwner), lifetime \in Lifetimes :
          FetchSucceeds(f, lifetime)
    /\ startAutoRefresh
    /\ phase' = "running"
    /\ UNCHANGED destroyed
    /\ UNCHANGED <<now, lastRefresh>>
    /\ UNCHANGED <<calls, reqs, metricsVars>>
    /\ UNCHANGED <<nextId, clients>>

\* A failed initial fetch after which start() goes on to listen.
InitializeFails_StartsAnyway ==
    /\ phase = "starting"
    /\ \E f \in PendingOf(InitOwner) : FetchFails(f)
    /\ phase' = "running"
    /\ UNCHANGED <<refreshTimer, intervals, destroyed, now, lastRefresh>>
    /\ UNCHANGED <<calls, reqs, metricsVars>>
    /\ UNCHANGED <<nextId, clients>>

\* initialize() rejects: start() catches and calls process.exit(1).
InitializeFails ==
    /\ phase = "starting"
    /\ \E f \in PendingOf(InitOwner) : FetchFails(f)
    /\ phase' = "exited"
    /\ UNCHANGED <<refreshTimer, intervals, destroyed, now, lastRefresh>>
    /\ UNCHANGED <<calls, reqs, metricsVars>>
    /\ UNCHANGED <<nextId, clients>>

\* The setInterval callback of startAutoRefresh(): it calls fetchToken().
TimerFires ==
    /\ phase = "running"
    /\ refreshTimer # Null
    /\ now = refreshTimer
    /\ fetchToken(TimerOwner)
    /\ refreshTimer' = now + RefreshInterval
    /\ UNCHANGED <<intervals, destroyed>>
    /\ UNCHANGED <<phase, token, tokenExpiry, fetched, now, lastRefresh>>
    /\ UNCHANGED <<calls, reqs, metricsVars>>
    /\ UNCHANGED <<nextId, clients>>

\* The callback's await this.fetchToken() resolves.
TimerFetchOk ==
    /\ phase = "running"
    /\ \E f \in PendingOf(TimerOwner), lifetime \in Lifetimes :
          FetchSucceeds(f, lifetime)
    /\ lastRefresh' = "ok"
    /\ UNCHANGED <<phase, refreshTimer, intervals, destroyed, now>>
    /\ UNCHANGED <<calls, reqs, metricsVars>>
    /\ UNCHANGED <<nextId, clients>>

\* The callback's await this.fetchToken() rejects: the catch logs, nothing
\* else happens.
TimerFetchFails ==
    /\ phase = "running"
    /\ \E f \in PendingOf(TimerOwner) : FetchFails(f)
    /\ lastRefresh' = "failed"
    /\ UNCHANGED <<phase, refreshTimer, intervals, destroyed, now>>
    /\ UNCHANGED <<calls, reqs, metricsVars>>
    /\ UNCHANGED <<nextId, clients>>

\* Time passes; a due interval fires before the clock moves on.
Tick ==
    /\ phase = "running"
    /\ now < MaxTime
    /\ refreshTimer = Null \/ now < refreshTimer
    /\ now' = now + 1
    /\ UNCHANGED <<phase, token, tokenExpiry, fetched, refreshTimer,
                   intervals, destroyed, issued, pending,
                   lastRefresh>>
    /\ UNCHANGED <<calls, reqs, metricsVars>>
    /\ UNCHANGED <<nextId, clients>>

\* ------------------------------------------- callers of the credential cache

\* Caller c calls getToken() (callers call in order).
GetToken(c) ==
    /\ phase = "running"
    /\ calls[c].pc = "idle"
    /\ \A d \in Callers : d < c => calls[d].pc # "idle"
    /\ getToken(CallOwner(c))
    /\ calls' = [calls EXCEPT ![c] =
          IF issued' = issued
            THEN [pc |-> "done", fetch |-> 0, result |-> token, err |-> NoError,
                  tokenAtCall |-> token, expiryAtCall |-> tokenExpiry,
                  nowAtCall |-> now]
            ELSE [pc |-> "waiting", fetch |-> issued', result |-> Null,
                  err |-> NoError, tokenAtCall |-> token,
                  expiryAtCall |-> tokenExpiry, nowAtCall |-> now]]
    /\ UNCHANGED <<phase, token, tokenExpiry, fetched, refreshTimer,
                   intervals, destroyed, now, lastRefresh>>
    /\ UNCHANGED <<reqs, metricsVars>>
    /\ UNCHANGED <<nextId, clients>>

\* The promise getToken() returned to caller c resolves with the token.
CallFetchOk(c) ==
    /\ calls[c].pc = "waiting"
    /\ \E f \in PendingOf(CallOwner(c)), lifetime \in Lifetimes :
          FetchSucceeds(f, lifetime)
    /\ calls' = [calls EXCEPT ![c].pc = "done", ![c].result = token']
    /\ UNCHANGED <<phase, refreshTimer, intervals, destroyed, now, lastRefresh>>
    /\ UNCHANGED <<reqs, metricsVars>>
    /\ UNCHANGED <<nextId, clients>>

\* A rejection that is swallowed: the caller is answered with the token the
\* cache holds.
Rejects_ServesCachedToken(call, e) ==
    [call EXCEPT !.pc = "done", !.result = token]

\* return this.fetchToken() with fetchToken()'s throw error: the promise
\* the caller holds rejects with the error of the POST.
Rejects(call, e) == [call EXCEPT !.pc = "failed", !.err = e]

\* The promise getToken() returned to caller c rejects with the error.
CallFetchFails(c) ==
    /\ calls[c].pc = "waiting"
    /\ \E f \in PendingOf(CallOwner(c)) : FetchFails(f)
    /\ \E e \in OAuthErrors :
          calls' = [calls EXCEPT ![c] = Rejects(calls[c], e)]
    /\ UNCHANGED <<phase, refreshTimer, intervals, destroyed, now, lastRefresh>>
    /\ UNCHANGED <<reqs, metricsVars>>
    /\ UNCHANGED <<nextId, clients>>

\* The credential cache and its callers.
Next ==
    \/ Initialize
    \/ InitializeOk
    \/ InitializeFails
    \/ TimerFires
    \/ TimerFetchOk
    \/ TimerFetchFails
    \/ Tick
    \/ \E c \in Callers : GetToken(c)
    \/ \E c \in Callers : CallFetchOk(c)
    \/ \E c \in Callers : CallFetchFails(c)

Spec == Init /\ [][Next]_vars

\* ------------------------------------------------- the refresh timer's life

\* destroy(): the interval this.refreshTimer refers to is cleared and the
\* field set to null.
destroy ==
    /\ refreshTimer' = Null
    /\ intervals' = IF refreshTimer # Null THEN intervals - 1 ELSE intervals

\* destroy() is called on a manager whose initialize() was called (its
\* first fetch may still be in flight).
DestroyCall ==
    /\ phase \in {"starting", "running"}
    /\ ~destroyed
    /\ destroy
    /\ destroyed' = TRUE
    /\ UNCHANGED <<phase, token, tokenExpiry, fetched, now, issued, pending,
                   lastRefresh>>
    /\ UNCHANGED <<calls, reqs, metricsVars, nextId, clients>>

\* startAutoRefresh() is called on a manager whose initialize() was called.
StartAutoRefreshCall ==
    /\ phase \in {"starting", "running"}
    /\ startAutoRefresh
    /\ destroyed' = FALSE
    /\ UNCHANGED <<phase, token, tokenExpiry, fetched, now, issued, pending,
                   lastRefresh>>
    /\ UNCHANGED <<calls, reqs, metricsVars, nextId, clients>>

\* The credential cache under initialize(), startAutoRefresh() and
\* destroy() calls.
NextTimer ==
    \/ Initialize
    \/ InitializeOk
    \/ InitializeFails
    \/ TimerFires
    \/ TimerFetchOk
    \/ TimerFetchFails
    \/ Tick
    \/ DestroyCall
    \/ StartAutoRefreshCall
    \/ \E c \in Callers : GetToken(c)
    \/ \E c \in Callers : CallFetchOk(c)
    \/ \E c \in Callers : CallFetchFails(c)

SpecTimer == Init /\ [][NextTimer]_vars

\* -------------------------------------------------------- MetricsCollector

\* Date.now() - startTime, in units of the model's clock: a request lasts
\* milliseconds to seconds (the upstream POST times out after 120 s, the
\* token POST after 30 s), less than one unit.
Duration == 0

\* this.requests.slice(-this.maxStoredRequests) when the length exceeds it.
TrimRequests(s) ==
    IF Len(s) > maxStoredRequests
      THEN SubSeq(s, Len(s) - maxStoredRequests + 1, Len(s))
      ELSE s

\* A map ordered by access: a key set again moves to the end.
MapSet_MovesToEnd(m, data) ==
    Append(SelectSeq(m, LAMBDA x : x.id # data.id), data)

\* Map.set(data.id, data): a key already present keeps its place.
MapSet(m, data) ==
    IF \E i \in 1..Len(m) : m[i].id = data.id
      THEN [i \in 1..Len(m) |-> IF m[i].id = data.id THEN data ELSE m[i]]
      ELSE Append(m, data)

\* The oldest key is deleted when the size exceeds maxStoredRequests.
TrimResponses(m) == IF Len(m) > maxStoredRequests THEN Tail(m) ELSE m

\* recordRequest(data)
recordRequest(data) ==
    /\ requests' = TrimRequests(Append(requests, data))
    /\ modelCounts' = IF data.model \in Models
                        THEN [modelCounts EXCEPT ![data.model] = @ + 1]
                        ELSE modelCounts
    /\ UNCHANGED <<responses, successCount, errorCount, totalDuration,
                   startTime>>

\* A collector whose counters follow the buffer: the outcome and the
\* duration of an evicted ResponseEvent are taken out of the totals.
recordResponse_ForgetsEvicted(data) ==
    LET set == MapSet(responses, data)
        evicted == Len(set) > maxStoredRequests
        count(status) == IF data.status = status THEN 1 ELSE 0
        lost(status) == IF evicted /\ set[1].status = status THEN 1 ELSE 0
    IN /\ responses' = TrimResponses(set)
       /\ successCount' = successCount + count("success") - lost("success")
       /\ errorCount' = errorCount + count("error") - lost("error")
       /\ totalDuration' = totalDuration + data.duration
                              - (IF evicted THEN set[1].duration ELSE 0)
       /\ UNCHANGED <<requests, modelCounts, startTime>>

\* recordResponse(data)
recordResponse(data) ==
    /\ responses' = TrimResponses(MapSet(responses, data))
    /\ IF data.status = "success"
         THEN successCount' = successCount + 1 /\ UNCHANGED errorCount
         ELSE errorCount' = errorCount + 1 /\ UNCHANGED successCount
    /\ totalDuration' = totalDuration + data.duration
    /\ UNCHANGED <<requests, modelCounts, startTime>>

\* A key that is the hour of the day only (substr(11, 2)).
HourKey_HourOfDayOnly(t) == <<0, (t \div HourUnits) % 24>>

\* new Date(t).toISOString().substr(0, 13), "YYYY-MM-DDTHH": the UTC day
\* and the hour of that day the instant t falls in (a day has 24 hours).
HourKey(t) == <<(t \div HourUnits) \div 24, (t \div HourUnits) % 24>>

\* A loop that steps back by half an hour.
HourlyKeys_HalfHourSteps(t) ==
    [j \in 1..HoursShown |->
        HourKey(t - (HoursShown - j) * (HourUnits \div 2))]

\* The keys the loop for (let i = 23; i >= 0; i--) sets, in the order it
\* sets them: the hour of now - i hours.
HourlyKeys(t) ==
    [j \in 1..HoursShown |-> HourKey(t - (HoursShown - j) * HourUnits)]

\* The keys of the object hourly, in insertion order: a key set twice is
\* one property.
RECURSIVE OwnKeys(_)
OwnKeys(s) ==
    IF s = << >> THEN << >>
    ELSE LET front == OwnKeys(SubSeq(s, 1, Len(s) - 1))
             last == s[Len(s)]
         IN IF \E k \in 1..Len(front) : front[k] = last
              THEN front
              ELSE Append(front, last)

\* Object.entries(hourly).map(...): one entry per key, labelled with the
\* hour of the day, with the number of stored requests whose hour is the key
\* (requests.forEach, lines 92-97).
HourlyEntries(keys) ==
    [j \in 1..Len(keys) |->
        [hour |-> keys[j][2],
         count |-> Cardinality({i \in 1..Len(requests) :
                                   HourKey(requests[i].timestamp) = keys[j]})]]

\* getHourlyStats()
getHourlyStats ==
    LET keys == CHOOSE k \in {OwnKeys(HourlyKeys(now))} : TRUE
    IN HourlyEntries(keys)

\* getMetrics(): uptime = Math.floor((Date.now() - this.startTime) / 1000),
\* in units of the model's clock.
uptime == now - startTime

\* A reset that starts the collector anew, its start time included.
reset_RestartsUptime ==
    /\ requests' = << >>
    /\ responses' = << >>
    /\ modelCounts' = [m \in Models |-> 0]
    /\ errorCount' = 0
    /\ successCount' = 0
    /\ totalDuration' = 0
    /\ startTime' = now

\* reset()
reset ==
    /\ requests' = << >>
    /\ responses' = << >>
    /\ modelCounts' = [m \in Models |-> 0]
    /\ errorCount' = 0
    /\ successCount' = 0
    /\ totalDuration' = 0
    /\ UNCHANGED startTime

\* ------------------------------------------------------------ ProxyHandler

\* authHeader.startsWith(prefix)
startsWith(s, prefix) ==
    Len(s) >= Len(prefix) /\ SubSeq(s, 1, Len(prefix)) = prefix

\* A check that only rejects a missing header.
AuthRejected_MissingOnly(authHeader) == authHeader = NoHeader

\* !authHeader || !authHeader.startsWith('Bearer ')
AuthRejected(authHeader) ==
    authHeader = NoHeader \/ ~startsWith(authHeader, BearerPrefix)

\* res.status(status).json(body): the whole response is sent and ended.
resJson(rec, status, body) ==
    [rec EXCEPT !.status = status, !.headersSent = TRUE, !.body = body,
                !.ended = TRUE, !.headerWrites = @ + 1]

\* A relay that puts the newest chunk first.
resWrite_Prepends(written, chunk) == <<chunk>> \o written

\* res.write(chunk) in the stream's 'data' handler.
resWrite(written, chunk) == Append(written, chunk)

\* formatErrorResponse(error)
formatErrorResponse(error) ==
    IF error.response
      THEN [status |-> error.status,
            body |-> IF error.data # NoBody THEN error.data ELSE Envelope("api_error")]
      ELSE [status |-> 500, body |-> Envelope("proxy_error")]

\* The catch block of handleChatCompletion and of handleCompletion: the
\* error is recorded, and answered unless the headers are sent.  JSON
\* serialization of a stream object (threw) may throw out of the handler
\* after res.status() and before anything is sent.
CatchError(r, rec, error, threw) ==
    /\ recordResponse([id |-> r, duration |-> Duration, status |-> "error"])
    /\ reqs' = [reqs EXCEPT ![r] =
          LET e == formatErrorResponse(error) IN
          LET rec1 == [rec EXCEPT !.pc = "done", !.nResponseEvents = @ + 1,
                                  !.outcome = "error"]
          IN IF rec.headersSent
               THEN rec1
               ELSE IF e.body = StreamObject /\ threw
                 THEN [rec1 EXCEPT !.status = e.status]
                 ELSE resJson(rec1, e.status, e.body)]

\* JavaScript's a || b on a parameter: undefined and 0 are falsy.
OrElse(a, b) == IF a = Undefined \/ a = 0 THEN b ELSE a

\* a !== undefined ? a : b
IfDefined(a, b) == IF a # Undefined THEN a ELSE b

\* const requestBody = {...req.body, max_tokens: ..., ...}: the caller's
\* body with the five generation parameters set (lines 62-69 and 191-198).
requestBody(body) ==
    [body EXCEPT
        !.max_tokens = OrElse(@, DefaultMaxTokens),
        !.temperature = IfDefined(@, DefaultTemperature),
        !.top_p = IfDefined(@, DefaultTopP),
        !.frequency_penalty = IfDefined(@, DefaultFrequencyPenalty),
        !.presence_penalty = IfDefined(@, DefaultPresencePenalty)]

\* Both handlers once the token is there: the body is completed, the
\* RequestEvent recorded and the upstream POST issued.
Forward(r, rec, tok) ==
    /\ recordRequest([id |-> r, model |-> requestBody(rec.reqBody).model,
                      endpoint |-> rec.endpoint, timestamp |-> now])
    /\ reqs' = [reqs EXCEPT ![r] =
          [rec EXCEPT !.pc = "awaitUpstream", !.upstreamCalled = TRUE,
                      !.requestBody = requestBody(rec.reqBody),
                      !.nRequestEvents = @ + 1]]

\* Both handlers at await this.oauthManager.getToken().
AwaitToken(r, rec) ==
    /\ getToken(ReqOwner(r))
    /\ IF issued' = issued
         THEN Forward(r, [rec EXCEPT !.askedToken = TRUE], token)
         ELSE /\ reqs' = [reqs EXCEPT ![r] =
                    [rec EXCEPT !.pc = "awaitToken", !.askedToken = TRUE]]
              /\ UNCHANGED metricsVars

\* POST /v1/chat/completions: handleChatCompletion(req, res) up to its
\* first await (requests arrive in the order of their numbers).
handleChatCompletion(r, auth, body) ==
    /\ phase = "running"
    /\ reqs[r].pc = "idle"
    /\ \A q \in Requests : q < r => reqs[q].pc # "idle"
    /\ LET rec == [IdleReq EXCEPT !.endpoint = "chat", !.auth = auth,
                                  !.stream = body.stream, !.reqBody = body]
       IN IF AuthRejected(auth)
            THEN /\ reqs' = [reqs EXCEPT ![r] =
                       resJson([rec EXCEPT !.pc = "done"], 401,
                               Envelope("invalid_request_error"))]
                 /\ UNCHANGED <<issued, pending, metricsVars>>
            ELSE AwaitToken(r, rec)
    /\ UNCHANGED <<phase, token, tokenExpiry, fetched, refreshTimer,
                   intervals, destroyed, now, lastRefresh,
                   calls>>
    /\ UNCHANGED <<nextId, clients>>

\* POST /v1/completions: handleCompletion(req, res) up to its first await.
\* The answer is never handled as a stream, whatever the body's stream flag.
handleCompletion(r, auth, body) ==
    /\ phase = "running"
    /\ reqs[r].pc = "idle"
    /\ \A q \in Requests : q < r => reqs[q].pc # "idle"
    /\ AwaitToken(r, [IdleReq EXCEPT !.endpoint = "completion", !.auth = auth,
                                     !.reqBody = body])
    /\ UNCHANGED <<phase, token, tokenExpiry, fetched, refreshTimer,
                   intervals, destroyed, now, lastRefresh,
                   calls>>
    /\ UNCHANGED <<nextId, clients>>

\* await getToken() resolves in request r.
TokenResolved(r) ==
    /\ reqs[r].pc = "awaitToken"
    /\ \E f \in PendingOf(ReqOwner(r)), lifetime \in Lifetimes :
          FetchSucceeds(f, lifetime)
    /\ Forward(r, reqs[r], token')
    /\ UNCHANGED <<phase, refreshTimer,
                   intervals, destroyed, now, lastRefresh, calls>>
    /\ UNCHANGED <<nextId, clients>>

\* await getToken() rejects in request r: the catch block runs.
TokenRejected(r) ==
    /\ reqs[r].pc = "awaitToken"
    /\ \E f \in PendingOf(ReqOwner(r)) : FetchFails(f)
    /\ \E e \in OAuthErrors :
          CatchError(r, [reqs[r] EXCEPT !.tokenErr = e], e, FALSE)
    /\ UNCHANGED <<phase, refreshTimer,
                   intervals, destroyed, now, lastRefresh, calls>>
    /\ UNCHANGED <<nextId, clients>>

\* handleStreamingResponse() after its await: the SSE headers are written
\* and the stream's handlers attached.
handleStreamingResponse(rec) ==
    [rec EXCEPT !.status = 200, !.headersSent = TRUE, !.up = "open",
                !.pc = "streaming", !.headerWrites = @ + 1]

\* handleRegularResponse() after its await: the gateway's _proxy is set
\* unless the body's own is truthy (an absent or null one is not), and the
\* upstream status and the body are relayed.
handleRegularResponse(r, rec) ==
    resJson([rec EXCEPT !.pc = "done",
                        !.bodyProxy = IF rec.upProxy = UpstreamProvenance
                                        THEN rec.upProxy
                                        ELSE ProxyProvenance(r)],
            rec.upStatus, rec.upData)

\* handleCompletion after its await: res.status(response.status)
\* .json(response.data), the upstream status and body as they are.
relayCompletion(rec) ==
    resJson([rec EXCEPT !.pc = "done", !.bodyProxy = rec.upProxy],
            rec.upStatus, rec.upData)

\* The upstream POST of request r resolves (a 2xx answer); the handler
\* relays it and records the success.
UpstreamOk(r, prov) ==
    /\ reqs[r].pc = "awaitUpstream"
    /\ reqs[r].stream => prov = NoProvenance
    /\ LET rec == [reqs[r] EXCEPT !.answer = "ok", !.upStatus = 200,
                                  !.upData = IF reqs[r].stream THEN StreamObject
                                                               ELSE UpstreamBody,
                                  !.upProxy = prov,
                                  !.nResponseEvents = @ + 1,
                                  !.outcome = "success"]
       IN reqs' = [reqs EXCEPT ![r] =
             IF rec.stream
               THEN handleStreamingResponse(rec)
               ELSE IF rec.endpoint = "chat"
                 THEN handleRegularResponse(r, rec)
                 ELSE relayCompletion(rec)]
    /\ recordResponse([id |-> r, duration |-> Duration,
                       status |-> "success"])
    /\ UNCHANGED <<oauthVars, calls>>
    /\ UNCHANGED <<nextId, clients>>

\* The upstream POST rejects with an error status: the catch block runs.
UpstreamErrorStatus(r) ==
    /\ reqs[r].pc = "awaitUpstream"
    /\ \E u \in UpstreamErrorAnswers, threw \in BOOLEAN :
          CatchError(r,
              [reqs[r] EXCEPT !.answer = "status", !.upStatus = u.status,
                              !.upData = u.data],
              [response |-> TRUE, status |-> u.status,
               data |-> IF reqs[r].stream THEN StreamObject ELSE u.data],
              threw)
    /\ UNCHANGED <<oauthVars, calls>>
    /\ UNCHANGED <<nextId, clients>>

\* The upstream POST rejects with no response (connectivity, timeout).
UpstreamNoResponse(r) ==
    /\ reqs[r].pc = "awaitUpstream"
    /\ CatchError(r, [reqs[r] EXCEPT !.answer = "noresp"],
                  [response |-> FALSE, status |-> 0, data |-> NoBody], FALSE)
    /\ UNCHANGED <<oauthVars, calls>>
    /\ UNCHANGED <<nextId, clients>>

\* The upstream stream emits its next chunk: the 'data' handler.
StreamData(r) ==
    /\ reqs[r].up = "open"
    /\ reqs[r].emitted < MaxChunks
    /\ reqs' = [reqs EXCEPT ![r].emitted = @ + 1,
                            ![r].written = resWrite(@, reqs[r].emitted + 1),
                            ![r].lateWrites =
                                IF reqs[r].ended \/ reqs[r].closed
                                  THEN @ + 1 ELSE @]
    /\ UNCHANGED <<oauthVars, calls, metricsVars>>
    /\ UNCHANGED <<nextId, clients>>

\* The upstream stream ends: the 'end' handler calls res.end().
StreamEnd(r) ==
    /\ reqs[r].up = "open"
    /\ reqs' = [reqs EXCEPT ![r].up = "ended", ![r].ended = TRUE,
                            ![r].pc = "done"]
    /\ UNCHANGED <<oauthVars, calls, metricsVars>>
    /\ UNCHANGED <<nextId, clients>>

\* An 'error' handler that answers 500 whether or not the headers are sent.
StreamError_AnswersAlways(r) ==
    /\ reqs[r].up = "open"
    /\ reqs' = [reqs EXCEPT ![r] =
          [reqs[r] EXCEPT !.up = "errored", !.pc = "done", !.status = 500,
                          !.headersSent = TRUE, !.ended = TRUE,
                          !.headerWrites = @ + 1]]
    /\ UNCHANGED <<oauthVars, calls, metricsVars>>
    /\ UNCHANGED <<nextId, clients>>

\* The upstream stream fails: the 'error' handler answers 500 only if the
\* headers are not sent.
StreamError(r) ==
    /\ reqs[r].up = "open"
    /\ reqs' = [reqs EXCEPT ![r] =
          IF reqs[r].headersSent
            THEN [reqs[r] EXCEPT !.up = "errored", !.pc = "done"]
            ELSE [reqs[r] EXCEPT !.up = "errored", !.pc = "done", !.status = 500,
                                 !.headersSent = TRUE, !.ended = TRUE,
                                 !.headerWrites = @ + 1]]
    /\ UNCHANGED <<oauthVars, calls, metricsVars>>
    /\ UNCHANGED <<nextId, clients>>

\* The gateway: the credential cache and the generation requests.
NextProxy ==
    \/ Initialize
    \/ InitializeOk
    \/ InitializeFails
    \/ TimerFires
    \/ TimerFetchOk
    \/ TimerFetchFails
    \/ Tick
    \/ \E r \in Requests, auth \in AuthHeaders, stream \in BOOLEAN :
          handleChatCompletion(r, auth, PlainBody(stream))
    \/ \E r \in Requests, auth \in AuthHeaders :
          handleCompletion(r, auth, PlainBody(FALSE))
    \/ \E r \in Requests : TokenResolved(r)
    \/ \E r \in Requests : TokenRejected(r)
    \/ \E r \in Requests : UpstreamOk(r, NoProvenance)
    \/ \E r \in Requests : UpstreamErrorStatus(r)
    \/ \E r \in Requests : UpstreamNoResponse(r)
    \/ \E r \in Requests : StreamData(r)
    \/ \E r \in Requests : StreamEnd(r)
    \/ \E r \in Requests : StreamError(r)

SpecProxy == Init /\ [][NextProxy]_vars

\* ------------------------------------- requests of every header and body

\* The gateway under requests with any of the inbound headers (and a plain
\* body) or any of the bodies (and a Bearer header with a credential), and
\* upstream answers with or without a _proxy property, up to the first
\* scheduled refresh.
NextForward ==
    \/ Initialize
    \/ InitializeOk
    \/ InitializeFails
    \/ Tick
    \/ \E r \in Requests, auth \in InboundHeaders, stream \in BOOLEAN :
          handleChatCompletion(r, auth, PlainBody(stream))
    \/ \E r \in Requests, body \in Bodies :
          handleChatCompletion(r, BearerKey, body)
    \/ \E r \in Requests, auth \in InboundHeaders :
          handleCompletion(r, auth, PlainBody(FALSE))
    \/ \E r \in Requests, body \in Bodies :
          handleCompletion(r, BearerKey, body)
    \/ \E r \in Requests : TokenResolved(r)
    \/ \E r \in Requests : TokenRejected(r)
    \/ \E r \in Requests, prov \in Provenances : UpstreamOk(r, prov)
    \/ \E r \in Requests : UpstreamErrorStatus(r)
    \/ \E r \in Requests : UpstreamNoResponse(r)
    \/ \E r \in Requests : StreamData(r)
    \/ \E r \in Requests : StreamEnd(r)
    \/ \E r \in Requests : StreamError(r)

SpecForward == Init /\ [][NextForward]_vars

\* ------------------------------------------------- callers that disconnect

\* The caller of request r closes its connection before the response is
\* ended.  Neither handler registers a listener on req or res for 'close'
\* or 'aborted', and no AbortSignal or cancel token is handed to the
\* upstream POST: no code of the gateway runs.
CallerCloses(r) ==
    /\ reqs[r].pc # "idle"
    /\ ~reqs[r].closed
    /\ ~reqs[r].ended
    /\ reqs' = [reqs EXCEPT ![r].closed = TRUE]
    /\ UNCHANGED <<oauthVars, calls, metricsVars, nextId, clients>>

\* The gateway with callers that may disconnect.
NextStream ==
    \/ Initialize
    \/ InitializeOk
    \/ InitializeFails
    \/ TimerFires
    \/ TimerFetchOk
    \/ TimerFetchFails
    \/ Tick
    \/ \E r \in Requests, auth \in AuthHeaders, stream \in BOOLEAN :
          handleChatCompletion(r, auth, PlainBody(stream))
    \/ \E r \in Requests, auth \in AuthHeaders :
          handleCompletion(r, auth, PlainBody(FALSE))
    \/ \E r \in Requests : TokenResolved(r)
    \/ \E r \in Requests : TokenRejected(r)
    \/ \E r \in Requests : UpstreamOk(r, NoProvenance)
    \/ \E r \in Requests : UpstreamErrorStatus(r)
    \/ \E r \in Requests : UpstreamNoResponse(r)
    \/ \E r \in Requests : StreamData(r)
    \/ \E r \in Requests : StreamEnd(r)
    \/ \E r \in Requests : StreamError(r)
    \/ \E r \in Requests : CallerCloses(r)

SpecStream == Init /\ [][NextStream]_vars

\* ------------------------------------------------------ the collector alone

\* The ids of the stored ResponseEvents.
RespondedIds == {responses[i].id : i \in 1..Len(responses)}

\* The request recorded last has its ResponseEvent stored (or none is
\* stored).
LastAnswered ==
    IF requests = << >> THEN TRUE
                        ELSE requests[Len(requests)].id \in RespondedIds

\* A handler records the RequestEvent of a new request: the id is a fresh
\* one of generateRequestId(), the timestamp is the clock's.
RecordRequestCall(limit) ==
    /\ nextId < limit
    /\ nextId' = nextId + 1
    /\ recordRequest([id |-> nextId + 1, model |-> "gpt-4",
                      endpoint |-> "chat", timestamp |-> now])
    /\ UNCHANGED <<oauthVars, calls, reqs, clients>>

\* A request is recorded once the one before it is answered.
RequestRecorded ==
    /\ LastAnswered
    /\ RecordRequestCall(MaxRecorded)

\* The duration (Date.now() - startTime of the handler, in milliseconds) of
\* the request id: every other request is answered within the millisecond.
DurationOf(id) == IF id % 2 = 0 THEN 0 ELSE 3

\* The handler of the request recorded last records its ResponseEvent.
ResponseRecorded ==
    /\ ~LastAnswered
    /\ recordResponse([id |-> requests[Len(requests)].id,
                       duration |-> DurationOf(requests[Len(requests)].id),
                       status |-> "success"])
    /\ UNCHANGED <<oauthVars, calls, reqs, nextId, clients>>

\* A second ResponseEvent is recorded under the oldest stored id (the key
\* is accessed again; once per key).
ResponseRecordedAgain ==
    /\ responses # << >>
    /\ responses[1].status = "success"
    /\ recordResponse([id |-> responses[1].id, duration |-> Duration,
                       status |-> "error"])
    /\ UNCHANGED <<oauthVars, calls, reqs, nextId, clients>>

\* reset() is called (by the dashboard's reset-metrics message).
ResetCall ==
    /\ reset
    /\ UNCHANGED <<oauthVars, calls, reqs, nextId, clients>>

\* The collector under recordRequest, recordResponse and reset calls.
NextMetrics ==
    \/ RequestRecorded
    \/ ResponseRecorded
    \/ ResponseRecordedAgain
    \/ ResetCall

SpecMetrics == Init /\ [][NextMetrics]_vars

\* ------------------------------------------- the collector and the clock

\* A handler records a request while the clock is observed.
RequestStamped == RecordRequestCall(MaxStamped)

\* The stored requests after k more recordRequest calls made at the instant
\* t, the first with the id first: each call appends one entry and keeps the
\* last maxStoredRequests, so the calls together keep the last
\* maxStoredRequests of all.
RecordedInARow(s, first, k, t) ==
    TrimRequests(s \o [i \in 1..k |->
                          [id |-> first + i - 1, model |-> "gpt-4",
                           endpoint |-> "chat", timestamp |-> t]])

\* A burst of traffic: maxStoredRequests requests are recorded within one
\* unit of the clock, which fills the buffer (once in a behaviour).
BurstOfRequests ==
    /\ nextId <= MaxStamped
    /\ nextId' = nextId + maxStoredRequests
    /\ requests' = RecordedInARow(requests, nextId + 1, maxStoredRequests, now)
    /\ modelCounts' = [modelCounts EXCEPT !["gpt-4"] = @ + maxStoredRequests]
    /\ UNCHANGED <<responses, successCount, errorCount, totalDuration,
                   startTime>>
    /\ UNCHANGED <<oauthVars, calls, reqs, clients>>

\* An hour passes.
HourPasses ==
    /\ now + HourUnits <= MaxHours * HourUnits + MaxTime
    /\ now' = now + HourUnits
    /\ UNCHANGED <<phase, token, tokenExpiry, fetched, refreshTimer,
                   intervals, destroyed, issued, pending,
                   lastRefresh>>
    /\ UNCHANGED <<calls, reqs, metricsVars, nextId, clients>>

\* A part of the first hour passes.
UnitPasses ==
    /\ now < MaxTime
    /\ now' = now + 1
    /\ UNCHANGED <<phase, token, tokenExpiry, fetched, refreshTimer,
                   intervals, destroyed, issued, pending,
                   lastRefresh>>
    /\ UNCHANGED <<calls, reqs, metricsVars, nextId, clients>>

\* The durations (Date.now() - startTime of a handler, in milliseconds) a
\* ResponseEvent carries.
Durations == {0, 3}

\* The handler of the request recorded last records its ResponseEvent, with
\* its outcome and its duration.
ResponseTimed ==
    /\ ~LastAnswered
    /\ \E status \in {"success", "error"}, duration \in Durations :
          recordResponse([id |-> requests[Len(requests)].id,
                          duration |-> duration, status |-> status])
    /\ UNCHANGED <<oauthVars, calls, reqs, nextId, clients>>

\* The collector under requests, responses and resets while time passes.
NextReset ==
    \/ RequestStamped
    \/ ResponseTimed
    \/ ResetCall
    \/ UnitPasses

SpecReset == Init /\ [][NextReset]_vars

\* The collector's requests under a running clock.
NextHistogram ==
    \/ RequestStamped
    \/ BurstOfRequests
    \/ ResetCall
    \/ HourPasses
    \/ UnitPasses

SpecHistogram == Init /\ [][NextHistogram]_vars

\* --------------------------------------------------------- DashboardServer

\* getUpdateData(): the message of an update, with the counters of
\* getMetrics() and the token status.
getUpdateData ==
    [type |-> "update", totalRequests |-> successCount + errorCount,
     successCount |-> successCount, errorCount |-> errorCount,
     stored |-> Len(requests), hasToken |-> hasValidToken]

\* ws.send(message): one more message has been sent to the subscriber.
wsSend(cl, msg) == [cl EXCEPT !.nReceived = @ + 1, !.last = msg]

\* A send to every subscriber that has connected, open or not.
sendIfOpen_AlsoToClosed(cl, msg) ==
    IF cl.readyState # "none" THEN wsSend(cl, msg) ELSE cl

\* A send to a subscriber that is not OPEN delivers nothing.
sendIfOpen(cl, msg) ==
    IF cl.readyState = "open" THEN wsSend(cl, msg) ELSE cl

\* A subscriber can take one more message (the bound on messages).
HasRoom(cl) == cl.readyState = "open" => cl.nReceived < MaxReceived

\* A broadcast that reaches the first open subscriber only.
broadcastUpdate_ToOneClient(msg) ==
    clients' = [s \in Subscribers |->
                  IF \A t \in Subscribers :
                        clients[t].readyState = "open" => s <= t
                    THEN sendIfOpen(clients[s], msg)
                    ELSE clients[s]]

\* broadcastUpdate(): the message is sent to every client that is OPEN.
broadcastUpdate(msg) ==
    clients' = [s \in Subscribers |-> sendIfOpen(clients[s], msg)]

\* A connection handler that sends nothing: the subscriber waits for the
\* next broadcast.
Connects_WaitsForBroadcast(s) ==
    /\ phase = "running"
    /\ clients[s].readyState = "none"
    /\ \A t \in Subscribers : t < s => clients[t].readyState # "none"
    /\ clients' = [clients EXCEPT ![s].readyState = "open"]
    /\ UNCHANGED <<oauthVars, calls, reqs, metricsVars, nextId>>

\* wss.on('connection'): the subscriber joins wss.clients and is sent one
\* update (sendUpdate).  Subscribers connect in the order of their numbers.
Connects(s) ==
    /\ phase = "running"
    /\ clients[s].readyState = "none"
    /\ \A t \in Subscribers : t < s => clients[t].readyState # "none"
    /\ clients' = [clients EXCEPT ![s] =
          sendIfOpen([@ EXCEPT !.readyState = "open"], getUpdateData)]
    /\ UNCHANGED <<oauthVars, calls, reqs, metricsVars, nextId>>

\* Subscriber s closes or its connection fails: it is no longer OPEN
\* (ws.on('close') and ws.on('error') log).
Closes(s) ==
    /\ clients[s].readyState = "open"
    /\ clients' = [clients EXCEPT ![s].readyState = "closed"]
    /\ UNCHANGED <<oauthVars, calls, reqs, metricsVars, nextId>>

\* A ping that is answered with a pong to every open subscriber.
PingMessage_PongToAll(s) ==
    /\ clients[s].readyState = "open"
    /\ \A t \in Subscribers : HasRoom(clients[t])
    /\ clients' = [t \in Subscribers |-> sendIfOpen(clients[t], Pong)]
    /\ UNCHANGED <<oauthVars, calls, reqs, metricsVars, nextId>>

\* ws.on('message') with {type: 'ping'}: a pong is sent to the sender.
PingMessage(s) ==
    /\ clients[s].readyState = "open"
    /\ HasRoom(clients[s])
    /\ clients' = [clients EXCEPT ![s] = sendIfOpen(@, Pong)]
    /\ UNCHANGED <<oauthVars, calls, reqs, metricsVars, nextId>>

\* ws.on('message') with {type: 'reset-metrics'}: this.metrics.reset(),
\* then this.broadcastUpdate().
ResetMetricsMessage(s) ==
    /\ clients[s].readyState = "open"
    /\ \A t \in Subscribers : HasRoom(clients[t])
    /\ UNCHANGED <<oauthVars, calls, reqs, nextId>>
    /\ reset
    /\ broadcastUpdate(getUpdateData')

\* A handler that closes the connection of a subscriber whose message it
\* does not understand.
OtherMessage_ClosesConnection(s) ==
    /\ clients[s].readyState = "open"
    /\ clients' = [clients EXCEPT ![s].ignored = 1 - @,
                                  ![s].readyState = "closed"]
    /\ UNCHANGED <<oauthVars, calls, reqs, metricsVars, nextId>>

\* ws.on('message') with a message of another type, or one JSON.parse
\* throws on: neither branch is taken (the catch logs), the message is one
\* more the handler took no action on.
OtherMessage(s) ==
    /\ clients[s].readyState = "open"
    /\ clients' = [clients EXCEPT ![s].ignored = 1 - @]
    /\ UNCHANGED <<oauthVars, calls, reqs, metricsVars, nextId>>

\* The setInterval callback of startUpdateLoop(), every 2 seconds.
BroadcastTick ==
    /\ phase = "running"
    /\ \A t \in Subscribers : HasRoom(clients[t])
    /\ broadcastUpdate(getUpdateData)
    /\ UNCHANGED <<oauthVars, calls, reqs, metricsVars, nextId>>

\* A handler records a request while the dashboard is observed.
ObservedRequest ==
    /\ phase = "running"
    /\ RecordRequestCall(MaxObserved)

\* The handler of the request recorded last records its ResponseEvent.
ObservedResponse ==
    /\ ~LastAnswered
    /\ \E status \in {"success", "error"} :
          recordResponse([id |-> requests[Len(requests)].id,
                          duration |-> Duration, status |-> status])
    /\ UNCHANGED <<oauthVars, calls, reqs, nextId, clients>>

\* The dashboard: its subscribers, its broadcast loop and the collector.
NextDashboard ==
    \/ Initialize
    \/ InitializeOk
    \/ InitializeFails
    \/ \E s \in Subscribers : Connects(s)
    \/ \E s \in Subscribers : Closes(s)
    \/ \E s \in Subscribers : PingMessage(s)
    \/ \E s \in Subscribers : ResetMetricsMessage(s)
    \/ BroadcastTick
    \/ ObservedRequest
    \/ ObservedResponse

SpecDashboard == Init /\ [][NextDashboard]_vars

\* The dashboard under messages it does not understand.
NextInbound ==
    \/ Initialize
    \/ InitializeOk
    \/ InitializeFails
    \/ \E s \in Subscribers : Connects(s)
    \/ \E s \in Subscribers : Closes(s)
    \/ \E s \in Subscribers : OtherMessage(s)
    \/ BroadcastTick
    \/ ObservedRequest
    \/ ObservedResponse

SpecInbound == Init /\ [][NextInbound]_vars

\* ------------------------------------------------- the observation routes

\* getNextRefreshTime(): null without an expiry, else the time left (never
\* negative) and the expiry.
getNextRefreshTime ==
    IF tokenExpiry = Null
      THEN [known |-> FALSE, seconds |-> 0, time |-> Null]
      ELSE [known |-> TRUE,
            seconds |-> IF tokenExpiry > now THEN tokenExpiry - now ELSE 0,
            time |-> tokenExpiry]

\* getSummary(): the totals and the number of models counted.
getSummary ==
    [total |-> successCount + errorCount, success |-> successCount,
     errors |-> errorCount,
     models |-> Cardinality({m \in Models : modelCounts[m] > 0})]

\* this.requests.slice(-20).reverse(): the last 20 stored requests, the
\* newest first.
recentRequests ==
    LET n == IF Len(requests) < 20 THEN Len(requests) ELSE 20
    IN [i \in 1..n |-> requests[Len(requests) - i + 1]]

\* getMetrics()
getMetrics ==
    [uptime |-> uptime, totalRequests |-> successCount + errorCount,
     successCount |-> successCount, errorCount |-> errorCount,
     modelUsage |-> modelCounts, recentRequests |-> recentRequests,
     hourlyCounts |-> getHourlyStats]

\* A route handler that answers at once: res.json(report).
Serve(r, route, report) ==
    /\ phase = "running"
    /\ reqs[r].pc = "idle"
    /\ \A q \in Requests : q < r => reqs[q].pc # "idle"
    /\ reqs' = [reqs EXCEPT ![r] =
          resJson([IdleReq EXCEPT !.pc = "done", !.endpoint = route],
                  200, report)]
    /\ UNCHANGED <<phase, token, tokenExpiry, fetched, refreshTimer,
                   intervals, destroyed, now, lastRefresh, calls>>
    /\ UNCHANGED <<metricsVars, nextId, clients>>

\* A health check that asks the cache for a token, which fetches one when
\* the credential is expired.
HealthRoute_FetchesWhenExpired(r) ==
    /\ Serve(r, "health",
             [status |-> "running", uptime |-> now,
              token_status |-> IF hasValidToken THEN "valid" ELSE "expired"])
    /\ getToken(ReqOwner(r))

\* GET /health
HealthRoute(r) ==
    /\ Serve(r, "health",
             [status |-> "running", uptime |-> now,
              token_status |-> IF hasValidToken THEN "valid" ELSE "expired"])
    /\ UNCHANGED <<issued, pending>>

\* GET /api/metrics
MetricsRoute(r) ==
    /\ Serve(r, "metrics", getMetrics)
    /\ UNCHANGED <<issued, pending>>

\* GET /api/status
StatusRoute(r) ==
    /\ Serve(r, "status",
             [proxy |-> [status |-> "running", uptime |-> now],
              oauth |-> [hasToken |-> hasValidToken,
                         nextRefresh |-> getNextRefreshTime],
              metrics |-> getSummary])
    /\ UNCHANGED <<issued, pending>>

\* The gateway observed: its routes answer and subscribers connect (each
\* is sent an update) while requests are recorded and answered and the
\* credential ages.
NextObserve ==
    \/ Initialize
    \/ InitializeOk
    \/ InitializeFails
    \/ Tick
    \/ ObservedRequest
    \/ ResponseRecorded
    \/ \E r \in Requests : HealthRoute(r)
    \/ \E r \in Requests : MetricsRoute(r)
    \/ \E r \in Requests : StatusRoute(r)
    \/ \E s \in Subscribers : Connects(s)

SpecObserve == Init /\ [][NextObserve]_vars

\* ------------------------------------------------------------------ claims

\* The headers of AuthHeaders that are missing or not of the Bearer form.
NotBearerHeaders == {NoHeader, BasicHeader}

\* The RequestEvents and ResponseEvents the aggregator stores for request r.
StoredRequestEvents(r) == {i \in 1..Len(requests) : requests[i].id = r}
StoredResponseEvents(r) == {i \in 1..Len(responses) : responses[i].id = r}

\* The handler of request r has run to its end (a streamed response may
\* still be relayed).
Handled(r) == reqs[r].pc \in {"done", "streaming"}

\* C1: getToken() calls that wait at the same time (made while the
\* credential is expired or absent, before any of their fetches resolved)
\* wait for one and the same fetch: exactly one fetch is issued for them.
C1_ConcurrentCallsShareOneFetch ==
    \A c, d \in Callers :
        (calls[c].pc = "waiting" /\ calls[d].pc = "waiting")
            => /\ calls[c].fetch = calls[d].fetch
               /\ Cardinality({f \in pending : f.owner.kind = "call"}) = 1

\* C2: a getToken() call made while the cached credential is unexpired
\* (token set and now < expiresAt at the call) returns the cached token at
\* once and issues no fetch; two such calls made under the same credential
\* return the same token.
C2_CachedTokenServedWithoutFetch ==
    \A c \in Callers :
        (/\ calls[c].pc # "idle"
         /\ calls[c].tokenAtCall # Null
         /\ calls[c].nowAtCall < calls[c].expiryAtCall)
            => /\ calls[c].pc = "done"
               /\ calls[c].fetch = 0
               /\ PendingOf(CallOwner(c)) = {}
               /\ calls[c].result = calls[c].tokenAtCall
               /\ \A d \in Callers :
                     (/\ calls[d].pc # "idle"
                      /\ calls[d].tokenAtCall = calls[c].tokenAtCall
                      /\ calls[d].expiryAtCall = calls[c].expiryAtCall
                      /\ calls[d].nowAtCall < calls[d].expiryAtCall)
                         => calls[d].result = calls[c].result

\* Two calls made at different instants under one unexpired credential,
\* both answered.
C2_Witness ==
    \E c, d \in Callers :
        /\ calls[c].pc = "done" /\ calls[d].pc = "done"
        /\ calls[c].tokenAtCall # Null
        /\ calls[c].tokenAtCall = calls[d].tokenAtCall
        /\ calls[c].expiryAtCall = calls[d].expiryAtCall
        /\ calls[c].nowAtCall < calls[d].nowAtCall
        /\ calls[d].nowAtCall < calls[d].expiryAtCall
        /\ calls[c].result = calls[d].result

\* A step in which a fetch of the interval's callback fails.
ScheduledRefreshFails ==
    \E f \in PendingOf(TimerOwner) :
        /\ f \notin pending'
        /\ lastRefresh' = "failed"

\* C3: a failed scheduled refresh is swallowed and leaves token and
\* tokenExpiry as they were: no caller and no request sees the failure, the
\* process keeps running, and a credential that was unexpired stays valid.
C3_FailedRefreshKeepsCredential ==
    [][ScheduledRefreshFails
          => /\ token' = token
             /\ tokenExpiry' = tokenExpiry
             /\ (hasValidToken => hasValidToken')
             /\ phase' = phase
             /\ calls' = calls
             /\ reqs' = reqs]_vars

\* A scheduled refresh has failed, the credential of initialize() is still
\* valid and a later getToken() call was answered with it.
C3_Witness ==
    /\ lastRefresh = "failed"
    /\ hasValidToken
    /\ \E c \in Callers :
          /\ calls[c].pc = "done"
          /\ calls[c].fetch = 0
          /\ calls[c].nowAtCall >= RefreshInterval
          /\ calls[c].result = token

\* C4: every generation request that passed the Authorization check (was
\* not answered with the 401 envelope) and whose handler has run to its end
\* has recorded exactly one RequestEvent and exactly one ResponseEvent.
C4_OneRequestEventAndOneResponseEvent ==
    \A r \in Requests :
        (Handled(r) /\ reqs[r].body # Envelope("invalid_request_error"))
            => /\ reqs[r].nRequestEvents = 1
               /\ Cardinality(StoredRequestEvents(r)) = 1
               /\ reqs[r].nResponseEvents = 1
               /\ Cardinality(StoredResponseEvents(r)) = 1

\* C5: every ResponseEvent in the aggregator has a RequestEvent of the same
\* id, recorded before it (fewer than maxStoredRequests requests are made,
\* so none is evicted).
C5_ResponseEventHasRequestEvent ==
    \A i \in 1..Len(responses) :
        \E j \in 1..Len(requests) : requests[j].id = responses[i].id

\* C6: a chat request whose Authorization header is missing or not of the
\* Bearer form is answered 401 with the invalid_request_error envelope and
\* records no RequestEvent and no ResponseEvent, calls no getToken(), issues
\* no token fetch and no upstream call.
C6_ChatWithoutBearerIsRejected ==
    \A r \in Requests :
        (/\ reqs[r].pc # "idle"
         /\ reqs[r].endpoint = "chat"
         /\ reqs[r].auth \in NotBearerHeaders)
            => /\ reqs[r].pc = "done"
               /\ reqs[r].headersSent
               /\ reqs[r].status = 401
               /\ reqs[r].body = Envelope("invalid_request_error")
               /\ reqs[r].ended
               /\ reqs[r].nRequestEvents = 0
               /\ reqs[r].nResponseEvents = 0
               /\ StoredRequestEvents(r) = {}
               /\ StoredResponseEvents(r) = {}
               /\ ~reqs[r].askedToken
               /\ PendingOf(ReqOwner(r)) = {}
               /\ ~reqs[r].upstreamCalled

\* A chat request with a header not of the Bearer form was rejected, and
\* the cached credential is expired.
C6_Witness ==
    \E r \in Requests :
        /\ reqs[r].endpoint = "chat"
        /\ reqs[r].auth = BasicHeader
        /\ reqs[r].pc = "done"
        /\ reqs[r].status = 401
        /\ ~hasValidToken

\* C7: a completion request whose Authorization header is missing or not of
\* the Bearer form is answered 401, is not forwarded upstream, obtains no
\* token and records no RequestEvent and no ResponseEvent.
C7_CompletionWithoutBearerIsRejected ==
    \A r \in Requests :
        (/\ reqs[r].pc # "idle"
         /\ reqs[r].endpoint = "completion"
         /\ reqs[r].auth \in NotBearerHeaders)
            => /\ reqs[r].pc = "done"
               /\ reqs[r].status = 401
               /\ reqs[r].nRequestEvents = 0
               /\ reqs[r].nResponseEvents = 0
               /\ ~reqs[r].askedToken
               /\ ~reqs[r].upstreamCalled

\* C8: when getToken() failed in a generation request, the caller is
\* answered with a 5xx status, never with the OAuth server's status.
C8_TokenFailureIsAnswered5xx ==
    \A r \in Requests :
        (reqs[r].tokenErr # NoError /\ reqs[r].pc = "done")
            => /\ reqs[r].headersSent
               /\ reqs[r].status \in 500..599

\* C9: an upstream error status is relayed with that status and that body;
\* no upstream response is answered 500 with the proxy_error envelope.
C9_ErrorNormalization ==
    \A r \in Requests :
        reqs[r].pc = "done"
            => /\ reqs[r].answer = "status"
                   => /\ reqs[r].headersSent
                      /\ reqs[r].status = reqs[r].upStatus
                      /\ reqs[r].body = reqs[r].upData
               /\ reqs[r].answer = "noresp"
                   => /\ reqs[r].headersSent
                      /\ reqs[r].status = 500
                      /\ reqs[r].body = Envelope("proxy_error")

C11_StreamErrorEndsResponse ==
    \A r \in Requests :
        reqs[r].up = "errored" => reqs[r].ended

\* C14: for a streaming request the ResponseEvent is recorded only after
\* the upstream stream has ended or failed, and its outcome is error when
\* the stream failed.
C14_StreamResponseEventAtCompletion ==
    \A r \in Requests :
        (reqs[r].up # "none" /\ reqs[r].nResponseEvents > 0)
            => /\ reqs[r].up \in {"ended", "errored"}
               /\ reqs[r].up = "errored" => reqs[r].outcome = "error"

\* C18: when the fetch of a getToken() call made without a valid
\* credential resolves, the caller gets that fetch's token; when it fails,
\* the caller's promise rejects with the error (no token, stale or other, is
\* returned) and token and tokenExpiry are left as they were.
C18_OnDemandFailureIsPropagated ==
    [][\A c \in Callers :
          (calls[c].pc = "waiting" /\ calls'[c].pc # "waiting")
              => \/ /\ token' = AccessToken(calls[c].fetch)
                    /\ calls'[c].pc = "done"
                    /\ calls'[c].result = token'
                 \/ /\ calls'[c].pc = "failed"
                    /\ calls'[c].err \in OAuthErrors
                    /\ calls'[c].result = Null
                    /\ token' = token
                    /\ tokenExpiry' = tokenExpiry]_vars

\* A getToken() call made with an expired credential has been rejected and
\* the expired credential is still the cached one.
C18_Witness ==
    \E c \in Callers :
        /\ calls[c].pc = "failed"
        /\ calls[c].err \in OAuthErrors
        /\ calls[c].tokenAtCall # Null
        /\ calls[c].nowAtCall >= calls[c].expiryAtCall
        /\ token = calls[c].tokenAtCall
        /\ tokenExpiry = calls[c].expiryAtCall

\* C19: requests are handled (the routes are installed and the server
\* listens) only in a process whose initialize() completed a successful
\* fetch and scheduled the refresh; a process whose initial fetch failed has
\* exited with no credential, no refresh timer, no fetch but the initial one
\* and no request handled.
C19_NoTrafficWithoutInitialCredential ==
    /\ phase = "running" => (token # Null /\ refreshTimer # Null)
    /\ phase # "running"
          => /\ \A r \in Requests : reqs[r].pc = "idle"
             /\ token = Null
             /\ refreshTimer = Null
             /\ PendingOf(TimerOwner) = {}
    /\ phase = "exited" => (issued = 1 /\ pending = {})

\* The initial fetch failed and the process exited.
C19_Witness ==
    /\ phase = "exited"
    /\ issued = 1
    /\ token = Null

\* C20: after a successful initialize(), as long as no scheduled refresh
\* has failed, hasValidToken() is true in every state, whatever lifetime
\* the token endpoint reported.
C20_CredentialAlwaysValid ==
    (phase = "running" /\ lastRefresh # "failed") => hasValidToken

\* C12: once the caller's connection has closed and the gateway has
\* handled a later event of the upstream stream (so any abort has had its
\* chance to run), the upstream stream of that request is no longer open.
C12_ClosedCallerAbortsUpstream ==
    \A r \in Requests :
        (reqs[r].closed /\ reqs[r].lateWrites > 0) => reqs[r].up # "open"

\* C13: in streaming mode no chunk is written to the caller's response
\* after the response was ended or the caller's connection closed.
C13_NoWriteAfterClose ==
    \A r \in Requests : reqs[r].lateWrites = 0

\* The smaller of two numbers.
Min(a, b) == IF a < b THEN a ELSE b

\* C15: after any sequence of recordRequest, recordResponse and reset
\* calls each buffer holds at most maxStoredRequests entries, and they are
\* the entries inserted last since the reset, in insertion order: the
\* stored requests are the newest ids, the stored responses are the ids
\* answered last, whether or not an older key was set again.
C15_BuffersHoldNewestHundred ==
    /\ Len(requests) <= maxStoredRequests
    /\ Len(responses) <= maxStoredRequests
    /\ Len(requests) = Min(maxStoredRequests, modelCounts["gpt-4"])
    /\ Len(responses) = Min(maxStoredRequests, successCount)
    /\ \A i \in 1..Len(requests) :
          requests[i].id = nextId - Len(requests) + i
    /\ \A i \in 1..Len(responses) :
          /\ responses[i].id = responses[Len(responses)].id - Len(responses) + i
          /\ responses[Len(responses)].id \in {nextId - 1, nextId}

\* Both buffers are full, more than maxStoredRequests entries were inserted
\* in each, and a key that was set again has been evicted as the oldest.
C15_Witness ==
    /\ Len(requests) = maxStoredRequests
    /\ Len(responses) = maxStoredRequests
    /\ nextId > maxStoredRequests + 1
    /\ responses[1].id > 1
    /\ responses[1].status = "success"
    /\ errorCount > 0

\* C16: in every state of the collector getHourlyStats() has exactly 24
\* entries, the i-th from the end being the hour i hours before the
\* current one (labelled with its hour of the day), and an hour in which no
\* stored request falls has count 0.
C16_HistogramHasTwentyFourEntries ==
    \E h \in {getHourlyStats} :
        /\ Len(h) = 24
        /\ \A i \in 0..23 :
              /\ h[24 - i].hour = ((now \div HourUnits) - i) % 24
              /\ (\A k \in 1..Len(requests) :
                     requests[k].timestamp \div HourUnits
                         # (now \div HourUnits) - i)
                    => h[24 - i].count = 0

\* The buffer is full, its requests were recorded in an earlier hour, and
\* the clock stands inside an hour.
C16_Witness ==
    /\ Len(requests) = maxStoredRequests
    /\ now % HourUnits # 0
    /\ requests[1].timestamp \div HourUnits < now \div HourUnits
    /\ Len(getHourlyStats) = 24

\* The update that shows an empty collector.
ZeroUpdate(hasToken) ==
    [type |-> "update", totalRequests |-> 0, successCount |-> 0,
     errorCount |-> 0, stored |-> 0, hasToken |-> hasToken]

\* A step that empties a collector that held a request or a count: a reset.
MetricsAreReset ==
    /\ requests # << >> \/ successCount + errorCount > 0
    /\ requests' = << >>
    /\ successCount' = 0
    /\ errorCount' = 0

\* C17: in the step in which a reset-metrics message empties the collector,
\* every subscriber that is open (the sender or not) is sent exactly one
\* message, an update showing total = 0, success = 0 and errors = 0, and no
\* other subscriber is sent anything.
C17_ResetIsBroadcastToAllOpen ==
    [][MetricsAreReset
          => \A s \in Subscribers :
                IF clients[s].readyState = "open"
                  THEN /\ clients'[s].nReceived = clients[s].nReceived + 1
                       /\ clients'[s].last = ZeroUpdate(hasValidToken)
                       /\ clients'[s].readyState = "open"
                  ELSE clients'[s] = clients[s]]_vars

\* Two subscribers are open, a request had been recorded, the collector is
\* empty again and the last message of both is the update that shows it.
C17_Witness ==
    /\ nextId > 0
    /\ requests = << >>
    /\ successCount + errorCount = 0
    /\ \A s \in {1, 2} :
          /\ clients[s].readyState = "open"
          /\ clients[s].nReceived >= 2
          /\ clients[s].last = ZeroUpdate(hasValidToken)

\* C21: in every state with a credential, tokenExpiry is the instant the
\* response that produced it arrived at plus the lifetime that response
\* reported; no lifetime of the cache's own is used when the response reports
\* none or 0.
C21_ExpiryIsReportedLifetime ==
    token # Null => tokenExpiry = fetched.at + fetched.expires_in

\* C22: in every state token and tokenExpiry come from one and the same
\* successful token response, also while a scheduled refresh and on-demand
\* fetches are in flight together; before the first response both are null.
C22_CredentialReplacedAtomically ==
    /\ token = Null => (tokenExpiry = Null /\ fetched = NoResponse)
    /\ token # Null
          => /\ token = AccessToken(fetched.id)
             /\ tokenExpiry = fetched.at + ExpiresIn(fetched.expires_in)

\* An on-demand fetch and a later scheduled refresh were in flight together;
\* the refresh resolved first and the on-demand fetch replaced its
\* credential.
C22_Witness ==
    \E c \in Callers :
        /\ calls[c].pc = "done"
        /\ calls[c].fetch # 0
        /\ calls[c].fetch < issued
        /\ calls[c].nowAtCall < RefreshInterval
        /\ lastRefresh = "ok"
        /\ PendingOf(TimerOwner) = {}
        /\ fetched.id = calls[c].fetch
        /\ token = AccessToken(calls[c].fetch)

\* The names of the five generation parameters.
ParamNames ==
    {"max_tokens", "temperature", "top_p", "frequency_penalty",
     "presence_penalty"}

\* The configured default of each generation parameter.
ConfiguredDefault ==
    [max_tokens |-> DefaultMaxTokens, temperature |-> DefaultTemperature,
     top_p |-> DefaultTopP, frequency_penalty |-> DefaultFrequencyPenalty,
     presence_penalty |-> DefaultPresencePenalty]

\* C23: in the chat and in the completion variant, the forwarded body
\* carries for each of the five generation parameters the caller's value
\* when the caller's body supplies one (0 included) and the configured
\* default when it omits it; the other fields (model, stream) are forwarded
\* unchanged.
C23_ExplicitParametersTakePrecedence ==
    \A r \in Requests :
        reqs[r].upstreamCalled
            => /\ \A p \in ParamNames :
                     reqs[r].requestBody[p] =
                         IF reqs[r].reqBody[p] # Undefined
                           THEN reqs[r].reqBody[p]
                           ELSE ConfiguredDefault[p]
               /\ reqs[r].requestBody.model = reqs[r].reqBody.model
               /\ reqs[r].requestBody.stream = reqs[r].reqBody.stream

\* C24: in buffered mode, chat or completion, the caller receives the
\* upstream status and the upstream JSON body, with the gateway's provenance
\* metadata (serving marker and request identifier) added if and only if the
\* upstream body carried no _proxy property; an existing one is never
\* overwritten.
C24_ProvenanceAddedIfAbsent ==
    \A r \in Requests :
        (reqs[r].pc = "done" /\ reqs[r].answer = "ok" /\ ~reqs[r].stream)
            => /\ reqs[r].status = reqs[r].upStatus
               /\ reqs[r].body = reqs[r].upData
               /\ reqs[r].bodyProxy =
                     IF reqs[r].upProxy = NoProvenance
                       THEN ProxyProvenance(r)
                       ELSE reqs[r].upProxy

\* The credential of a header of the Bearer form: what follows the prefix.
Credential(authHeader) == SubSeq(authHeader, Len(BearerPrefix) + 1, Len(authHeader))

\* C25: a request is accepted (not answered 401, its handler goes on to
\* getToken()) if and only if its Authorization header is Bearer followed by
\* a non-empty credential; a Bearer header with an empty credential is
\* answered 401.
C25_AcceptedIffBearerWithCredential ==
    \A r \in Requests :
        reqs[r].pc # "idle"
            => LET accepted == reqs[r].askedToken /\ reqs[r].status # 401
                   wellFormed == /\ startsWith(reqs[r].auth, BearerPrefix)
                                 /\ Credential(reqs[r].auth) # << >>
               IN /\ accepted <=> wellFormed
                  /\ ~wellFormed
                        => /\ reqs[r].status = 401
                           /\ reqs[r].body = Envelope("invalid_request_error")

\* A step in which a subscriber that was open is sent an update: a
\* broadcast.
UpdateIsBroadcast ==
    \E s \in Subscribers :
        /\ clients[s].readyState = "open"
        /\ clients'[s].nReceived = clients[s].nReceived + 1
        /\ clients'[s].last.type = "update"

\* C26: in every broadcast each subscriber that is open is sent exactly one
\* message, the same snapshot for all of them, and stays open; a subscriber
\* that is closed, errored or not connected is sent nothing, and does not
\* keep the open ones from being sent theirs.
C26_BroadcastReachesEveryOpenSubscriber ==
    [][UpdateIsBroadcast
          => \A s \in Subscribers :
                IF clients[s].readyState = "open"
                  THEN clients'[s] = wsSend(clients[s], getUpdateData')
                  ELSE clients'[s] = clients[s]]_vars

\* The first subscriber closed having been sent the update of its connect
\* only; the second is open and was sent a broadcast after that.
C26_Witness ==
    /\ clients[1].readyState = "closed"
    /\ clients[1].nReceived = 1
    /\ clients[2].readyState = "open"
    /\ clients[2].nReceived = 2
    /\ clients[2].last = getUpdateData

\* C27: in the step in which a subscriber connects it is sent exactly one
\* update, the snapshot of that moment, and no other subscriber is sent
\* anything; so every subscriber that has connected was sent an update
\* whether or not a broadcast followed.
C27_ConnectPushesOneSnapshot ==
    [][\A s \in Subscribers :
          (clients[s].readyState = "none" /\ clients'[s].readyState # "none")
              => /\ clients'[s] =
                       [NoClient EXCEPT !.readyState = "open",
                                        !.nReceived = 1,
                                        !.last = getUpdateData]
                 /\ \A t \in Subscribers \ {s} : clients'[t] = clients[t]]_vars

\* Two subscribers are open, each was sent the update of its connect only,
\* and the two updates differ (a request was recorded in between).
C27_Witness ==
    /\ \A s \in {1, 2} :
          /\ clients[s].readyState = "open"
          /\ clients[s].nReceived = 1
          /\ clients[s].last.type = "update"
    /\ clients[1].last # clients[2].last

\* A step in which a subscriber is sent a pong.
PongIsSent ==
    \E s \in Subscribers :
        /\ clients'[s].nReceived = clients[s].nReceived + 1
        /\ clients'[s].last = Pong

\* C28: in a step in which a pong is sent, exactly one subscriber (the
\* sender of the ping, which is open) is sent exactly one message, the pong;
\* no other subscriber is sent anything, and the collector's state and the
\* credential are unchanged.
C28_PingIsAnsweredWithOnePong ==
    [][PongIsSent
          => /\ \E s \in Subscribers :
                   /\ clients[s].readyState = "open"
                   /\ clients' = [clients EXCEPT ![s] = wsSend(@, Pong)]
             /\ UNCHANGED <<metricsVars, token, tokenExpiry, fetched>>]_vars

\* Two subscribers are open and the collector holds a request; the first
\* was sent a pong after its connect's update, the second its connect's
\* update only.
C28_Witness ==
    /\ clients[1].readyState = "open"
    /\ clients[1].nReceived = 2
    /\ clients[1].last = Pong
    /\ clients[2].readyState = "open"
    /\ clients[2].nReceived = 1
    /\ clients[2].last.type = "update"
    /\ requests # << >>

\* A step in which the collector drops a stored event or lowers a counter.
CollectorIsReset ==
    \/ Len(requests') < Len(requests)
    \/ Len(responses') < Len(responses)
    \/ successCount' < successCount
    \/ errorCount' < errorCount
    \/ totalDuration' < totalDuration
    \/ \E m \in Models : modelCounts'[m] < modelCounts[m]

\* C29: a reset leaves no stored request and no stored response, sets the
\* success count, the error count, the total duration and every model's
\* count to zero, and leaves the start time as it was: the uptime after the
\* reset is the time since the collector was created.
C29_ResetClearsAllButStartTime ==
    [][CollectorIsReset
          => /\ requests' = << >>
             /\ responses' = << >>
             /\ successCount' = 0
             /\ errorCount' = 0
             /\ totalDuration' = 0
             /\ \A m \in Models : modelCounts'[m] = 0
             /\ startTime' = startTime
             /\ uptime' = now' - 0]_vars

\* The collector was reset, and has recorded a request, an error and a
\* duration after time had passed; its uptime counts from its creation.
C29_Witness ==
    /\ nextId > Len(requests)
    /\ requests # << >>
    /\ errorCount > 0
    /\ totalDuration > 0
    /\ requests[1].timestamp > 0
    /\ uptime = now

\* The calendar hour (counted from the epoch) the instant t falls in.
CalendarHour(t) == t \div HourUnits

\* The stored requests whose timestamp falls in calendar hour h.
StoredInHour(h) ==
    {k \in 1..Len(requests) : CalendarHour(requests[k].timestamp) = h}

\* The sum of the counts of the first n entries of a histogram.
RECURSIVE SumOfCounts(_, _)
SumOfCounts(hist, n) ==
    IF n = 0 THEN 0 ELSE SumOfCounts(hist, n - 1) + hist[n].count

\* C30: in every snapshot the histogram's entry for each of the trailing 24
\* calendar hours holds exactly the number of stored requests whose
\* timestamp falls in that hour; the 24 counts sum to the number of stored
\* requests timestamped within those hours, which is at most the number of
\* stored requests and at most maxStoredRequests.
C30_BucketsCountStoredRequests ==
    \E hist \in {getHourlyStats} :
        /\ Len(hist) = 24
        /\ \A i \in 0..23 :
              hist[24 - i].count =
                  Cardinality(StoredInHour(CalendarHour(now) - i))
        /\ SumOfCounts(hist, 24) =
              Cardinality({k \in 1..Len(requests) :
                  /\ CalendarHour(requests[k].timestamp) >= CalendarHour(now) - 23
                  /\ CalendarHour(requests[k].timestamp) <= CalendarHour(now)})
        /\ SumOfCounts(hist, 24) <= Len(requests)
        /\ Len(requests) <= maxStoredRequests

\* Two requests are stored: the first was recorded more than 24 hours ago,
\* at the hour of the day the clock shows now, the second within the
\* trailing 24 hours; the histogram counts the second only.
C30_Witness ==
    /\ Len(requests) = 2
    /\ CalendarHour(requests[1].timestamp) = CalendarHour(now) - 24
    /\ CalendarHour(requests[2].timestamp) > CalendarHour(now) - 24
    /\ CalendarHour(requests[2].timestamp) < CalendarHour(now)
    /\ SumOfCounts(getHourlyStats, 24) = 1
    /\ getHourlyStats[24].count = 0

\* C37: at most one refresh interval is active in every state, whatever
\* initialize(), startAutoRefresh() and destroy() calls were made, and once
\* destroy() was called (and no initialize() or startAutoRefresh() since) no
\* interval is active, so that no scheduled fetch can be issued.
C37_OneTimerNoneAfterDestroy ==
    /\ intervals <= 1
    /\ destroyed => (intervals = 0 /\ refreshTimer = Null)

\* The fetch f, which resolves in this step, succeeded: its owner goes on
\* with the token (initialize() schedules the refresh, the interval's
\* callback does not log a failure, the caller's promise resolves).
ResolvedOk(f) ==
    CASE f.owner.kind = "init" -> phase' = "running"
      [] f.owner.kind = "timer" -> lastRefresh' = "ok"
      [] f.owner.kind = "call" -> calls'[f.owner.id].pc = "done"
      [] OTHER -> FALSE

\* C32: whenever a token fetch resolves, also while other fetches are in
\* flight or have resolved before it, a successful one leaves its own token
\* in the cache (the successful fetch that resolved last wins, whichever was
\* issued first) and a failed one leaves token and tokenExpiry as the
\* earlier fetches left them; the credential changes in no other step.
C32_LastSuccessfulFetchWins ==
    [][/\ \A f \in pending :
             f \notin pending'
                 => IF ResolvedOk(f)
                      THEN /\ token' = AccessToken(f.id)
                           /\ tokenExpiry' > now
                      ELSE /\ token' = token
                           /\ tokenExpiry' = tokenExpiry
       /\ pending \subseteq pending'
             => (token' = token /\ tokenExpiry' = tokenExpiry)]_vars

\* Two on-demand fetches were in flight together; the one issued first
\* resolved last, after a fetch issued later had succeeded, and its token is
\* the cached one; the other caller holds the token of the later fetch.
C32_Witness ==
    /\ calls[1].pc = "done"
    /\ calls[2].pc = "done"
    /\ calls[1].fetch # 0
    /\ calls[1].fetch < calls[2].fetch
    /\ calls[2].result = AccessToken(calls[2].fetch)
    /\ token = AccessToken(calls[1].fetch)
    /\ fetched.id = calls[1].fetch

\* C35: in every state the responses the collector has counted (successes
\* plus errors) are at most the RequestEvents recorded since the last reset,
\* also for a request that fails before its upstream call.  (Fewer than
\* maxStoredRequests requests are made and the collector is not reset, so
\* the stored RequestEvents are all that were recorded.)
C35_ResponsesCountedAtMostRequests ==
    successCount + errorCount <= Len(requests)

\* A recordRequest call ran in this step.
RequestIsRecorded == requests' # << >> /\ requests' # requests

\* A recordResponse call ran in this step.
ResponseIsRecorded == responses' # << >> /\ responses' # responses

\* The event that call stored: under a new key at the end, or in the place
\* of the event its key held.
RecordedResponse ==
    IF responses'[Len(responses')].id \notin RespondedIds
      THEN responses'[Len(responses')]
      ELSE LET i == CHOOSE i \in 1..Len(responses) :
                        responses'[i] # responses[i]
           IN responses'[i]

\* C34: eviction changes no counter.  Every recordRequest adds one to the
\* count of its model and every recordResponse adds one to the success or
\* the error count (by its status) and its duration to the total duration,
\* whether or not the call evicts the oldest entry of a full buffer; each
\* leaves the other counters alone, and both buffers stay at
\* maxStoredRequests entries at most.  The counters are so cumulative over
\* the events recorded since the last reset and total = success + error
\* goes on growing after maxStoredRequests responses.
C34_EvictionChangesNoCounter ==
    [][/\ RequestIsRecorded
             => /\ modelCounts' =
                      [modelCounts EXCEPT ![requests'[Len(requests')].model]
                                              = @ + 1]
                /\ UNCHANGED <<successCount, errorCount, totalDuration>>
       /\ ResponseIsRecorded
             => /\ successCount' = successCount
                      + (IF RecordedResponse.status = "success" THEN 1 ELSE 0)
                /\ errorCount' = errorCount
                      + (IF RecordedResponse.status = "success" THEN 0 ELSE 1)
                /\ totalDuration' = totalDuration + RecordedResponse.duration
                /\ UNCHANGED modelCounts
       /\ Len(requests') <= maxStoredRequests
       /\ Len(responses') <= maxStoredRequests]_vars

\* More than maxStoredRequests requests and responses were recorded since
\* the last reset, which was not the first state: both buffers are full,
\* entries were evicted from each, and the counters have gone past the
\* buffers' size, with durations summed over evicted responses.
C34_Witness ==
    /\ Len(requests) = maxStoredRequests
    /\ Len(responses) = maxStoredRequests
    /\ modelCounts["gpt-4"] > maxStoredRequests
    /\ successCount + errorCount > maxStoredRequests + 1
    /\ modelCounts["gpt-4"] < nextId
    /\ totalDuration > maxStoredRequests

\* The handler ran in this step on a message of subscriber s that is not
\* valid JSON or of another type.
OtherIsHandled(s) == clients'[s].ignored # clients[s].ignored

\* C36: an inbound message that is not valid JSON, or whose type is neither
\* ping nor reset-metrics, has no effect: in the step that handles it no
\* subscriber is sent anything (no reply, no broadcast), the collector is
\* unchanged and the sender stays open; and in every later broadcast a
\* subscriber that sent such a message and is open is sent the update.
C36_UnknownMessageHasNoEffect ==
    [][/\ \A s \in Subscribers :
             OtherIsHandled(s)
                 => /\ clients' = [clients EXCEPT
                                      ![s].ignored = clients'[s].ignored]
                    /\ clients'[s].readyState = "open"
                    /\ UNCHANGED metricsVars
       /\ UpdateIsBroadcast
             => \A s \in Subscribers :
                   (clients[s].ignored = 1 /\ clients[s].readyState = "open")
                       => clients'[s] = wsSend(clients[s], getUpdateData')]_vars

\* The first subscriber sent a message the handler took no action on while
\* the collector held a request and its response; it is still open and was
\* then sent a periodic update, its second message, as was the other one.
C36_Witness ==
    /\ clients[1].ignored = 1
    /\ clients[1].readyState = "open"
    /\ clients[1].nReceived = 2
    /\ clients[1].last = getUpdateData
    /\ clients[1].last.totalRequests = 1
    /\ clients[2].readyState = "open"
    /\ clients[2].ignored = 0
    /\ clients[2].last = clients[1].last

\* C33: each generation request gets at most one response: its status line
\* and headers are written at most once (never before the handler ran,
\* once if and only if they are sent), and a request whose SSE headers were
\* written is sent no JSON body, error envelope or other, and keeps the
\* status 200, however its upstream call and its stream end.
C33_AtMostOneResponse ==
    \A r \in Requests :
        /\ reqs[r].headerWrites <= 1
        /\ reqs[r].headersSent <=> reqs[r].headerWrites = 1
        /\ reqs[r].up # "none"
              => (reqs[r].body = NoBody /\ reqs[r].status = 200)

\* A streamed request whose upstream stream failed after the SSE headers
\* and a chunk were written: its headers were written once.
C33_Witness ==
    \E r \in Requests :
        /\ reqs[r].up = "errored"
        /\ reqs[r].written # << >>
        /\ reqs[r].headerWrites = 1
        /\ reqs[r].nResponseEvents = 1

\* The routes that report on the gateway.
ObservationRoutes == {"health", "status", "metrics"}

\* One of those routes answered request r in this step.
RouteIsServed(r) ==
    reqs[r].pc = "idle" /\ reqs'[r].endpoint \in ObservationRoutes

\* A telemetry update was sent to a subscriber in this step.
UpdateIsPushed ==
    \E s \in Subscribers :
        /\ clients'[s].nReceived = clients[s].nReceived + 1
        /\ clients'[s].last.type = "update"

\* C31: the observation operations are read-only.  A step in which
\* /health, /api/status or /api/metrics answers (with hasValidToken(),
\* getNextRefreshTime(), getMetrics(), getSummary()), or in which a
\* telemetry update is built and sent, leaves the cached credential, the
\* event buffers and every counter as they were and issues no token fetch,
\* also when the credential is expired; the report says so.
C31_ObservationIsReadOnly ==
    [][/\ ((\E r \in Requests : RouteIsServed(r)) \/ UpdateIsPushed)
             => /\ UNCHANGED <<token, tokenExpiry, issued, pending>>
                /\ UNCHANGED metricsVars
       /\ \A r \in Requests :
             (RouteIsServed(r) /\ reqs'[r].endpoint = "health")
                 => (reqs'[r].body.token_status = "expired") = ~hasValidToken
       /\ \A r \in Requests :
             (RouteIsServed(r) /\ reqs'[r].endpoint = "status")
                 => /\ reqs'[r].body.oauth.hasToken = hasValidToken
                    /\ reqs'[r].body.metrics.total = successCount + errorCount
       /\ \A r \in Requests :
             (RouteIsServed(r) /\ reqs'[r].endpoint = "metrics")
                 => reqs'[r].body.totalRequests = successCount + errorCount]_vars

\* /api/status was answered while the credential was expired and a request
\* was counted: it reported no valid token and no time left, the expired
\* credential is still cached, no fetch is in flight and only the initial
\* one was issued; a subscriber that connected was sent an update that says
\* the same.
C31_Witness ==
    /\ reqs[1].endpoint = "status"
    /\ reqs[1].pc = "done"
    /\ ~reqs[1].body.oauth.hasToken
    /\ reqs[1].body.oauth.nextRefresh.known
    /\ reqs[1].body.oauth.nextRefresh.seconds = 0
    /\ reqs[1].body.metrics.total = 1
    /\ token # Null
    /\ ~hasValidToken
    /\ pending = {}
    /\ issued = 1
    /\ clients[1].readyState = "open"
    /\ clients[1].nReceived = 1
    /\ clients[1].last.type = "update"
    /\ ~clients[1].last.hasToken
    /\ clients[1].last.totalRequests = 1

====
